---- MODULE Spec2Model ----
(***************************************************************************)
(* Auction canister (src/auction_final_backend/src/lib.rs).                *)
(*                                                                         *)
(* The state is the stable map from item key to Item.  Every update call   *)
(* (create_item, edit_item, end_item, bid) is one atomic step, as the      *)
(* canister runs one message at a time.  Each handler is an operator from  *)
(* the map before the call and the call's inputs to the returned value and *)
(* the map after the call; the actions apply the handlers to all inputs.   *)
(*                                                                         *)
(* Item keeps the fields the handlers decide on or compute: owner,         *)
(* new_owner, amount, is_active, bid.  The text fields (description,       *)
(* currency, start_time, end_time) are copied from the draft and never     *)
(* read, and are left out.  A Bid keeps owner and amount.                  *)
(*                                                                         *)
(* lib.rs does not type-check as written.  The model follows its text:     *)
(*  - bid line 281 `None => Err(BidError::NoSuchItem)` is read as the      *)
(*    early return of that error;                                          *)
(*  - bid line 294 compares the caller with the owner field of the request*)
(*    (CreateBid.owner), not with the owner of the item;                   *)
(*  - bid line 298 pushes the caller: the stored Bid has owner = caller    *)
(*    and the amount of the request; item.amount is not assigned;          *)
(*  - end_item computes max_bid_owner and does not assign item.new_owner.  *)
(***************************************************************************)
EXTENDS Integers, Sequences, FiniteSets, TLC

VARIABLES store, last, ended

vars == <<store, last, ended>>

(* Bounds of the exploration: the greatest amount a bid request carries and *)
(* the number of bids stored in the whole map.  The handlers touch one key *)
(* each, so two keys show every interaction between items.                 *)
MaxAmount == 1
MaxBids == 2

Keys == {1, 2}
Amounts == 0..MaxAmount
Callers == {"A", "B"}
Anonymous == "anonymous"
Principals == Callers \cup {Anonymous}

EmptyMap == [x \in {} |-> 0]

(* StableBTreeMap::get is Some(_) exactly for the keys of the map. *)
Has(map, key) == key \in DOMAIN map

(* StableBTreeMap::insert: the map after the write. *)
Insert(map, key, value) ==
  [x \in (DOMAIN map) \cup {key} |-> IF x = key THEN value ELSE map[x]]

(* StableBTreeMap::insert: the returned previous value is Some(_) or None. *)
InsertPrev(map, key) == IF Has(map, key) THEN "Some" ELSE "None"

(* create_item that leaves a stored item alone. *)
create_item_keep_existing(map, key, caller, item) ==
  LET value == [owner     |-> caller,
                new_owner |-> Anonymous,
                amount    |-> 0,
                is_active |-> item.is_active,
                bid       |-> <<>>]
  IN [res |-> InsertPrev(map, key),
      map |-> IF Has(map, key) THEN map ELSE Insert(map, key, value)]

(* create_item with the winner field filled like the owner field. *)
create_item_winner_is_caller(map, key, caller, item) ==
  LET value == [owner     |-> caller,
                new_owner |-> caller,
                amount    |-> 0,
                is_active |-> item.is_active,
                bid       |-> <<>>]
  IN [res |-> InsertPrev(map, key), map |-> Insert(map, key, value)]

create_item(map, key, caller, item) ==
  LET value == [owner     |-> caller,
                new_owner |-> Anonymous,
                amount    |-> 0,
                is_active |-> item.is_active,
                bid       |-> <<>>]
  IN [res |-> InsertPrev(map, key), map |-> Insert(map, key, value)]

(* edit_item with the draft's flag checked before the caller. *)
edit_item_flag_first(map, key, caller, item) ==
  IF ~Has(map, key) THEN [res |-> "NoSuchAuction", map |-> map]
  ELSE LET old_item == map[key] IN
    IF ~item.is_active THEN [res |-> "AuctionIsNotActive", map |-> map]
    ELSE IF caller # old_item.owner THEN [res |-> "AccessRejected", map |-> map]
    ELSE LET value == [owner     |-> caller,
                       new_owner |-> Anonymous,
                       amount    |-> old_item.amount,
                       is_active |-> item.is_active,
                       bid       |-> old_item.bid]
         IN [res |-> IF InsertPrev(map, key) = "Some" THEN "Ok" ELSE "UpdateError",
             map |-> Insert(map, key, value)]

(* edit_item with the bids built as create_item builds them. *)
edit_item_fresh_bids(map, key, caller, item) ==
  IF ~Has(map, key) THEN [res |-> "NoSuchAuction", map |-> map]
  ELSE LET old_item == map[key] IN
    IF caller # old_item.owner THEN [res |-> "AccessRejected", map |-> map]
    ELSE IF ~item.is_active THEN [res |-> "AuctionIsNotActive", map |-> map]
    ELSE LET value == [owner     |-> caller,
                       new_owner |-> Anonymous,
                       amount    |-> old_item.amount,
                       is_active |-> item.is_active,
                       bid       |-> <<>>]
         IN [res |-> IF InsertPrev(map, key) = "Some" THEN "Ok" ELSE "UpdateError",
             map |-> Insert(map, key, value)]

edit_item(map, key, caller, item) ==
  IF ~Has(map, key) THEN [res |-> "NoSuchAuction", map |-> map]
  ELSE LET old_item == map[key] IN
    IF caller # old_item.owner THEN [res |-> "AccessRejected", map |-> map]
    ELSE IF ~item.is_active THEN [res |-> "AuctionIsNotActive", map |-> map]
    ELSE LET value == [owner     |-> caller,
                       new_owner |-> Anonymous,
                       amount    |-> old_item.amount,
                       is_active |-> item.is_active,
                       bid       |-> old_item.bid]
         IN [res |-> IF InsertPrev(map, key) = "Some" THEN "Ok" ELSE "UpdateError",
             map |-> Insert(map, key, value)]

(* The loop of end_item over item.bid: the running maximum and its owner. *)
RECURSIVE MaxBidScan(_, _, _, _)
MaxBidScan(bids, i, max_bid_amount, max_bid_owner) ==
  IF i > Len(bids) THEN [amount |-> max_bid_amount, owner |-> max_bid_owner]
  ELSE IF bids[i].amount > max_bid_amount
       THEN MaxBidScan(bids, i + 1, bids[i].amount, bids[i].owner)
       ELSE MaxBidScan(bids, i + 1, max_bid_amount, max_bid_owner)

(* end_item that refuses an item that is closed already. *)
end_item_reject_closed(map, key, caller) ==
  IF ~Has(map, key) THEN [res |-> "NoSuchAuction", map |-> map]
  ELSE LET item0 == map[key] IN
    IF caller # item0.owner THEN [res |-> "AccessRejected", map |-> map]
    ELSE IF ~item0.is_active THEN [res |-> "AuctionIsNotActive", map |-> map]
    ELSE LET item == [item0 EXCEPT !.is_active = FALSE]
         IN [res |-> IF InsertPrev(map, key) = "Some" THEN "Ok" ELSE "UpdateError",
             map |-> Insert(map, key, item)]

(* end_item that matches the value returned by insert the wrong way round. *)
end_item_match_swapped(map, key, caller) ==
  IF ~Has(map, key) THEN [res |-> "NoSuchAuction", map |-> map]
  ELSE LET item0 == map[key] IN
    IF caller # item0.owner THEN [res |-> "AccessRejected", map |-> map]
    ELSE LET item == [item0 EXCEPT !.is_active = FALSE]
         IN [res |-> IF InsertPrev(map, key) = "Some" THEN "UpdateError" ELSE "Ok",
             map |-> Insert(map, key, item)]

(* end_item with the item closed and written before the caller is checked. *)
end_item_write_first(map, key, caller) ==
  IF ~Has(map, key) THEN [res |-> "NoSuchAuction", map |-> map]
  ELSE LET item == [map[key] EXCEPT !.is_active = FALSE] IN
    IF caller # item.owner
    THEN [res |-> "AccessRejected", map |-> Insert(map, key, item)]
    ELSE [res |-> IF InsertPrev(map, key) = "Some" THEN "Ok" ELSE "UpdateError",
          map |-> Insert(map, key, item)]

end_item(map, key, caller) ==
  IF ~Has(map, key) THEN [res |-> "NoSuchAuction", map |-> map]
  ELSE LET item0 == map[key] IN
    IF caller # item0.owner THEN [res |-> "AccessRejected", map |-> map]
    ELSE LET item == [item0 EXCEPT !.is_active = FALSE]
             scan == MaxBidScan(item.bid, 1, 0, Anonymous)
         IN [res |-> IF InsertPrev(map, key) = "Some" THEN "Ok" ELSE "UpdateError",
             map |-> Insert(map, key, item)]

bid(map, key, caller, req) ==
  IF ~Has(map, key) THEN [res |-> "NoSuchItem", map |-> map]
  ELSE LET item0 == map[key] IN
    IF item0.is_active = FALSE THEN [res |-> "AuctionIsNotActive", map |-> map]
    ELSE IF req.amount <= item0.amount
      THEN [res |-> "BidAmountLessThanCurrent", map |-> map]
    ELSE IF caller = req.owner THEN [res |-> "OwnerIsNotValid", map |-> map]
    ELSE LET item == [item0 EXCEPT
                        !.bid = Append(@, [owner |-> caller, amount |-> req.amount])]
         IN [res |-> IF InsertPrev(map, key) = "Some" THEN "Ok" ELSE "UpdateError",
             map |-> Insert(map, key, item)]

(* The keys of the map in the order of StableBTreeMap::iter, ascending. *)
RECURSIVE IterKeys(_)
IterKeys(S) ==
  IF S = {} THEN <<>>
  ELSE LET k == CHOOSE x \in S : \A y \in S : x <= y
       IN <<k>> \o IterKeys(S \ {k})

(* get_list_of_items: the loop over the entries, pushing the active items. *)
RECURSIVE ListScan(_, _, _)
ListScan(map, keys, item_list) ==
  IF keys = <<>> THEN item_list
  ELSE LET item == map[Head(keys)]
       IN ListScan(map, Tail(keys),
                   IF item.is_active THEN Append(item_list, item) ELSE item_list)

(* get_list_of_items that pushes every item. *)
get_list_of_items_unfiltered(map) ==
  LET keys == IterKeys(DOMAIN map) IN [i \in 1..Len(keys) |-> map[keys[i]]]

get_list_of_items(map) == ListScan(map, IterKeys(DOMAIN map), <<>>)

(* get_item_count that counts the active items, as get_list_of_items does. *)
get_item_count_active(map, key) ==
  Cardinality({k \in DOMAIN map : map[k].is_active})

(* get_item_count: the length of the map; the key argument is not read. *)
get_item_count(map, key) == Cardinality(DOMAIN map)

(* Iterator::max_by over the entries by the number of bids: the fold keeps *)
(* the entry it holds only when it compares Greater, so of equal entries   *)
(* the later one is kept.  best is the key held, 0 before the first entry. *)
RECURSIVE MaxByScan(_, _, _)
MaxByScan(map, keys, best) ==
  IF keys = <<>> THEN best
  ELSE LET k == Head(keys) IN
    IF best # 0 /\ Len(map[best].bid) > Len(map[k].bid)
    THEN MaxByScan(map, Tail(keys), best)
    ELSE MaxByScan(map, Tail(keys), k)

(* The same fold keeping the earlier of equal entries. *)
RECURSIVE MaxByScanFirst(_, _, _)
MaxByScanFirst(map, keys, best) ==
  IF keys = <<>> THEN best
  ELSE LET k == Head(keys) IN
    IF best # 0 /\ Len(map[best].bid) >= Len(map[k].bid)
    THEN MaxByScanFirst(map, Tail(keys), best)
    ELSE MaxByScanFirst(map, Tail(keys), k)

(* find_most_bidded_item that returns the first of the items of most bids. *)
find_most_bidded_item_first(map) ==
  LET best == MaxByScanFirst(map, IterKeys(DOMAIN map), 0)
  IN IF best = 0 THEN [res |-> "None", key |-> 0, item |-> <<>>]
     ELSE [res |-> "Some", key |-> best, item |-> map[best]]

(* find_most_bidded_item: Some(item) with the key it was found under, or *)
(* None for the empty map.                                               *)
find_most_bidded_item(map) ==
  LET best == MaxByScan(map, IterKeys(DOMAIN map), 0)
  IN IF best = 0 THEN [res |-> "None", key |-> 0, item |-> <<>>]
     ELSE [res |-> "Some", key |-> best, item |-> map[best]]

(* The number of bids stored under the keys of S. *)
RECURSIVE SumBids(_, _)
SumBids(map, S) ==
  IF S = {} THEN 0
  ELSE LET k == CHOOSE x \in S : TRUE
       IN Len(map[k].bid) + SumBids(map, S \ {k})

TotalBids(map) == SumBids(map, DOMAIN map)

(* store: the stable map.  last: the call that ran last, its key and what  *)
(* it returned; a query leaves the map alone, so what it returned is the   *)
(* query applied to store, and last keeps its name (and Some or None).     *)
(* ended: the keys on which end_item has returned Ok.                      *)
Init ==
  /\ store = EmptyMap
  /\ last = [op |-> "init", key |-> 0, res |-> "None"]
  /\ ended = {}

CreateItemCall(key, caller, is_active) ==
  LET r == create_item(store, key, caller, [is_active |-> is_active]) IN
    /\ store' = r.map
    /\ last' = [op |-> "create_item", key |-> key, res |-> r.res]
    /\ ended' = ended

EditItemCall(key, caller, is_active) ==
  LET r == edit_item(store, key, caller, [is_active |-> is_active]) IN
    /\ store' = r.map
    /\ last' = [op |-> "edit_item", key |-> key, res |-> r.res]
    /\ ended' = ended

EndItemCall(key, caller) ==
  LET r == end_item(store, key, caller) IN
    /\ store' = r.map
    /\ last' = [op |-> "end_item", key |-> key, res |-> r.res]
    /\ ended' = IF r.res = "Ok" THEN ended \cup {key} ELSE ended

BidCall(key, caller, amount, owner) ==
  LET r == bid(store, key, caller, [amount |-> amount, owner |-> owner]) IN
    /\ TotalBids(r.map) <= MaxBids
    /\ store' = r.map
    /\ last' = [op |-> "bid", key |-> key, res |-> r.res]
    /\ ended' = ended

GetListOfItemsCall ==
  /\ store' = store
  /\ last' = [op |-> "get_list_of_items", key |-> 0, res |-> "Ok"]
  /\ ended' = ended

GetItemCountCall(key) ==
  /\ store' = store
  /\ last' = [op |-> "get_item_count", key |-> key, res |-> "Ok"]
  /\ ended' = ended

FindMostBiddedItemCall ==
  /\ store' = store
  /\ last' = [op |-> "find_most_bidded_item", key |-> 0,
              res |-> find_most_bidded_item(store).res]
  /\ ended' = ended

CreateItem ==
  \E key \in Keys, caller \in Callers, is_active \in BOOLEAN :
    CreateItemCall(key, caller, is_active)

EditItem ==
  \E key \in Keys, caller \in Callers, is_active \in BOOLEAN :
    EditItemCall(key, caller, is_active)

EndItem == \E key \in Keys, caller \in Callers : EndItemCall(key, caller)

BidItem ==
  \E key \in Keys, caller \in Callers, amount \in Amounts, owner \in Callers :
    BidCall(key, caller, amount, owner)

GetListOfItems == GetListOfItemsCall

GetItemCount == \E key \in Keys : GetItemCountCall(key)

FindMostBiddedItem == FindMostBiddedItemCall

Next ==
  \/ CreateItem \/ EditItem \/ EndItem \/ BidItem
  \/ GetListOfItems \/ GetItemCount \/ FindMostBiddedItem

Spec == Init /\ [][Next]_vars

TypeOK ==
  /\ DOMAIN store \subseteq Keys
  /\ \A k \in DOMAIN store :
       /\ store[k].owner \in Callers
       /\ store[k].new_owner \in Principals
       /\ store[k].amount \in Nat
       /\ store[k].is_active \in BOOLEAN
       /\ \A i \in 1..Len(store[k].bid) :
            /\ store[k].bid[i].owner \in Callers
            /\ store[k].bid[i].amount \in Amounts
  /\ TotalBids(store) <= MaxBids
  /\ ended \subseteq Keys

(***************************************************************************)
(* Helpers of the properties.                                              *)
(***************************************************************************)

(* The greatest amount among the bids, 0 for no bids. *)
RECURSIVE MaxAmountOf(_)
MaxAmountOf(bids) ==
  IF bids = <<>> THEN 0
  ELSE LET m == MaxAmountOf(Tail(bids))
       IN IF Head(bids).amount >= m THEN Head(bids).amount ELSE m

(* The owner of the earliest bid of the greatest amount, the anonymous *)
(* principal for no bids.                                               *)
TopBidder(bids) ==
  IF bids = <<>> THEN Anonymous
  ELSE LET i == CHOOSE j \in 1..Len(bids) :
                  /\ bids[j].amount = MaxAmountOf(bids)
                  /\ \A h \in 1..(j - 1) : bids[h].amount < MaxAmountOf(bids)
       IN bids[i].owner

AuctionErrors ==
  {"UpdateError", "NoSuchAuction", "AuctionIsNotActive", "Expired",
   "AccessRejected", "InvalidChoice"}

BidErrors ==
  {"BidAmountLessThanCurrent", "UpdateError", "NoSuchItem", "AuctionIsNotActive",
   "Expired", "ReachMaxBid", "InvalidChoice", "OwnerIsNotValid"}

Errors == AuctionErrors \cup BidErrors

Requests == [amount : Amounts, owner : Callers]

(***************************************************************************)
(* C1  One-way close.  For every key on which end_item has returned Ok,    *)
(* the item is inactive in every later state and every bid call on the key *)
(* returns AuctionIsNotActive.                                             *)
(* Fails: the owner's edit_item with an active draft writes is_active =    *)
(* true on a closed item.                                                  *)
(***************************************************************************)
C1_OneWayClose ==
  \A k \in ended :
    /\ Has(store, k)
    /\ ~store[k].is_active
    /\ \A c \in Callers, req \in Requests :
         bid(store, k, c, req).res = "AuctionIsNotActive"

(***************************************************************************)
(* C2  Winner correctness.  Right after end_item returns Ok, new_owner of  *)
(* the item is the owner of the earliest bid of the greatest amount, or    *)
(* the anonymous principal when the item has no bids.                      *)
(* Fails: end_item computes max_bid_owner and never stores it.             *)
(***************************************************************************)
C2_WinnerCorrect ==
  (last.op = "end_item" /\ last.res = "Ok") =>
    store[last.key].new_owner = TopBidder(store[last.key].bid)

(***************************************************************************)
(* C3  Monotonic amount.  In every state the amount of every item is the   *)
(* greatest amount among its stored bids, 0 when it has none.              *)
(* Fails: bid appends the bid and never assigns item.amount.               *)
(***************************************************************************)
C3_AmountIsMaxBid ==
  \A k \in DOMAIN store : store[k].amount = MaxAmountOf(store[k].bid)

(***************************************************************************)
(* C4  No self-bid.  In every state no stored bid of an item has the owner *)
(* of the item as its owner.                                               *)
(* Fails: bid compares the caller with the owner field of the request, not *)
(* with the owner of the item.                                             *)
(***************************************************************************)
C4_NoSelfBid ==
  \A k \in DOMAIN store :
    \A i \in 1..Len(store[k].bid) : store[k].bid[i].owner # store[k].owner

(***************************************************************************)
(* C5  Access control.  For every stored item and every caller other than  *)
(* its owner, an edit_item call (whatever the draft's flag) and an         *)
(* end_item call return AccessRejected and leave the map as it was,        *)
(* whether the item is active or closed.                                   *)
(***************************************************************************)
C5_AccessControl ==
  [][\A key \in Keys, caller \in Callers :
       (last'.op \in {"edit_item", "end_item"} /\ last'.key = key
          /\ Has(store, key) /\ caller # store[key].owner) =>
         /\ \A is_active \in BOOLEAN :
              EditItemCall(key, caller, is_active) =>
                (last'.res = "AccessRejected" /\ store' = store)
         /\ EndItemCall(key, caller) =>
              (last'.res = "AccessRejected" /\ store' = store)]_vars

(* A non-owner's edit_item was rejected on a closed item that has a bid. *)
C5_Witness ==
  /\ last.op = "edit_item"
  /\ last.res = "AccessRejected"
  /\ ~store[last.key].is_active
  /\ store[last.key].bid # <<>>

C7_ErrorKeepsStore ==
  [][last'.res \in Errors => store' = store]_vars

(* end_item was rejected for a non-owner and the item is still active. *)
C7_Witness ==
  /\ last.op = "end_item"
  /\ last.res = "AccessRejected"
  /\ store[last.key].is_active
  /\ store[last.key].bid # <<>>

(***************************************************************************)
(* C8  Owner immutability.  The owner of a stored item is the same in      *)
(* every later state, under every update call.                             *)
(* Fails: create_item on a stored key replaces the item, owner included.   *)
(***************************************************************************)
C8_OwnerImmutable ==
  [][\A k \in DOMAIN store :
       Has(store', k) /\ store'[k].owner = store[k].owner]_vars

(***************************************************************************)
(* C9  Closed items are frozen.  Once an item has been inactive (it is     *)
(* inactive now, or end_item has returned Ok on its key), no step changes  *)
(* its bid sequence or its amount.                                         *)
(* Fails: edit_item reopens a closed item and bid then appends to it;      *)
(* create_item on the key empties the bids.                                *)
(***************************************************************************)
C9_ClosedFrozen ==
  [][\A k \in DOMAIN store :
       (k \in ended \/ ~store[k].is_active) =>
         /\ Has(store', k)
         /\ store'[k].bid = store[k].bid
         /\ store'[k].amount = store[k].amount]_vars

(***************************************************************************)
(* C10  Sentinel until close.  Every active item has the anonymous         *)
(* principal as new_owner; new_owner of a key changes only in an end_item  *)
(* call on that key, and only in the first one that returns Ok.            *)
(***************************************************************************)
C10_SentinelUntilClose ==
  /\ [](\A k \in DOMAIN store :
          store[k].is_active => store[k].new_owner = Anonymous)
  /\ [][\A k \in DOMAIN store :
          (Has(store', k) /\ store'[k].new_owner # store[k].new_owner) =>
            /\ last'.op = "end_item"
            /\ last'.key = k
            /\ last'.res = "Ok"
            /\ k \notin ended]_vars

(* An item with a bid is active while end_item has closed the other one. *)
C10_Witness ==
  /\ last.op = "end_item"
  /\ last.res = "Ok"
  /\ store[last.key].bid # <<>>
  /\ \E k \in DOMAIN store : store[k].is_active /\ store[k].bid # <<>>

(***************************************************************************)
(* C11  Order of the checks of bid.  A bid call returns the no-such-item   *)
(* error for an absent key; else AuctionIsNotActive for an inactive item;  *)
(* else BidAmountLessThanCurrent for an amount not above the item's        *)
(* amount; else OwnerIsNotValid for a caller that is the item's owner;     *)
(* else Ok.                                                                *)
(* Fails: the fourth check compares the caller with the owner field of the *)
(* request, so the item's owner is accepted and other callers are refused. *)
(***************************************************************************)
C11_BidCheckOrder ==
  [][\A key \in Keys, caller \in Callers, amount \in Amounts, owner \in Callers :
       BidCall(key, caller, amount, owner) =>
         last'.res =
           IF ~Has(store, key) THEN "NoSuchItem"
           ELSE IF ~store[key].is_active THEN "AuctionIsNotActive"
           ELSE IF amount <= store[key].amount THEN "BidAmountLessThanCurrent"
           ELSE IF caller = store[key].owner THEN "OwnerIsNotValid"
           ELSE "Ok"]_vars

(***************************************************************************)
(* C13  edit_item cannot close an item.  The owner's edit_item with an     *)
(* inactive draft returns AuctionIsNotActive and leaves the map as it was; *)
(* and a step that takes a stored item from active to inactive is an       *)
(* end_item call on its key.                                               *)
(* Fails: create_item on a stored key with an inactive draft replaces an   *)
(* active item by an inactive one.                                         *)
(***************************************************************************)
C13_OnlyEndItemCloses ==
  [][/\ \A key \in Keys, caller \in Callers :
          (Has(store, key) /\ caller = store[key].owner
             /\ EditItemCall(key, caller, FALSE)) =>
            (last'.res = "AuctionIsNotActive" /\ store' = store)
     /\ \A k \in DOMAIN store :
          (store[k].is_active /\ Has(store', k) /\ ~store'[k].is_active) =>
            (last'.op = "end_item" /\ last'.key = k)]_vars

(***************************************************************************)
(* C14  create_item postcondition.  After create_item(key, draft) by a     *)
(* caller, from any state, the item under key has owner = caller,          *)
(* new_owner anonymous, amount 0 and no bids, and every other key of the   *)
(* map is as it was.                                                       *)
(***************************************************************************)
C14_CreatePostcondition ==
  [][\A key \in Keys, caller \in Callers, is_active \in BOOLEAN :
       (last'.op = "create_item" /\ last'.key = key
          /\ CreateItemCall(key, caller, is_active)) =>
         /\ DOMAIN store' = DOMAIN store \cup {key}
         /\ store'[key].owner = caller
         /\ store'[key].new_owner = Anonymous
         /\ store'[key].amount = 0
         /\ store'[key].bid = <<>>
         /\ \A other \in DOMAIN store \ {key} : store'[other] = store[other]]_vars

(* create_item replaced an item that end_item had closed, while the other *)
(* key holds an item with a bid.                                          *)
C14_Witness ==
  /\ last.op = "create_item"
  /\ last.res = "Some"
  /\ last.key \in ended
  /\ store[last.key].bid = <<>>
  /\ \E other \in DOMAIN store \ {last.key} : store[other].bid # <<>>

(***************************************************************************)
(* C17  Strictly increasing bid history.  In every state the amounts of    *)
(* the bids of an item increase strictly in the order of insertion.        *)
(* Fails: item.amount stays 0, so a bid of any positive amount is accepted *)
(* after a greater or equal one.                                           *)
(***************************************************************************)
C17_BidsStrictlyIncrease ==
  \A k \in DOMAIN store :
    \A i, j \in 1..Len(store[k].bid) :
      i < j => store[k].bid[i].amount < store[k].bid[j].amount

(***************************************************************************)
(* C18  end_item is idempotent for the owner.  An end_item call by the     *)
(* owner on an item that is closed already returns Ok and leaves the map   *)
(* as it was.                                                              *)
(***************************************************************************)
C18_EndItemIdempotent ==
  [][\A key \in Keys, caller \in Callers :
       (last'.op = "end_item" /\ last'.key = key
          /\ Has(store, key) /\ caller = store[key].owner /\ ~store[key].is_active
          /\ EndItemCall(key, caller)) =>
         (last'.res = "Ok" /\ store' = store)]_vars

(* end_item has returned Ok on both keys, one of them holding bids: each *)
(* further end_item by an owner is a repeated call.                      *)
C18_Witness ==
  /\ last.op = "end_item"
  /\ last.res = "Ok"
  /\ ended = Keys
  /\ \A k \in Keys : Has(store, k) /\ ~store[k].is_active
  /\ Len(store[last.key].bid) = MaxBids

(***************************************************************************)
(* C19  UpdateError is unreachable.  No edit_item, end_item or bid call    *)
(* returns UpdateError: the key they write was read as present in the same *)
(* call.                                                                   *)
(***************************************************************************)
C19_NoUpdateError == last.res # "UpdateError"

(* bid wrote an item back and returned Ok. *)
C19_Witness ==
  /\ last.op = "bid"
  /\ last.res = "Ok"
  /\ Len(store[last.key].bid) = MaxBids

(***************************************************************************)
(* C12  most_bid_item.  find_most_bidded_item returns None exactly for the *)
(* empty map; otherwise it returns an item that has at least as many bids  *)
(* as every stored item.  As claimed, of several items of the most bids it *)
(* returns the first in the order of iteration (the least key).            *)
(* Fails: Iterator::max_by returns the last of several equal maxima.       *)
(***************************************************************************)
MostBidKeys(map) ==
  {k \in DOMAIN map : \A j \in DOMAIN map : Len(map[k].bid) >= Len(map[j].bid)}

C15_CountPersists ==
  /\ \A key \in Keys : get_item_count(store, key) = 0
  /\ [][\A key \in Keys :
          /\ DOMAIN store \subseteq DOMAIN store'
          /\ get_item_count(store', key) =
               get_item_count(store, key)
                 + (IF last'.op = "create_item" /\ ~Has(store, last'.key)
                    THEN 1 ELSE 0)]_vars

(* get_item_count ran on a map of one closed and one active item. *)
C15_Witness ==
  /\ last.op = "get_item_count"
  /\ get_item_count(store, last.key) = 2
  /\ \E k \in ended : ~store[k].is_active
  /\ \E k \in DOMAIN store : store[k].is_active

(***************************************************************************)
(* C16  list_active_items.  get_list_of_items returns active items only,   *)
(* each of them an item of the map; it returns as many entries as the map  *)
(* has active items, and each active item as often as the map holds it     *)
(* (once per key); a closed item is not returned; the call leaves the map  *)
(* as it was.                                                              *)
(***************************************************************************)
ActiveKeys(map) == {k \in DOMAIN map : map[k].is_active}

C16_ListIsActiveItems ==
  /\ [](LET l == get_list_of_items(store) IN
          /\ \A i \in 1..Len(l) :
               l[i].is_active /\ \E k \in ActiveKeys(store) : l[i] = store[k]
          /\ Len(l) = Cardinality(ActiveKeys(store))
          /\ \A k \in ActiveKeys(store) :
               Cardinality({i \in 1..Len(l) : l[i] = store[k]})
                 = Cardinality({j \in ActiveKeys(store) : store[j] = store[k]})
          /\ \A k \in DOMAIN store \ ActiveKeys(store) :
               \A i \in 1..Len(l) : l[i] # store[k])
  /\ [][last'.op = "get_list_of_items" => store' = store]_vars

(* get_list_of_items ran on a map of one item closed by end_item and one *)
(* active item, both with a bid.                                         *)
C16_Witness ==
  /\ last.op = "get_list_of_items"
  /\ DOMAIN store = Keys
  /\ \E k \in ended : ~store[k].is_active /\ store[k].bid # <<>>
  /\ \E k \in Keys : store[k].is_active /\ store[k].bid # <<>>
  /\ Len(get_list_of_items(store)) = 1
====
